---- MODULE Spec2Model ----
(***************************************************************************)
(* A model of package_github_upload.py: the staging of selected run        *)
(* directories into a fresh output directory, the manifest, the optional   *)
(* environment snapshot and the optional archive.                          *)
(*                                                                         *)
(* Paths, file names and glob patterns are strings; a file's bytes are     *)
(* named by a content id, its size is SizeOf[id] and its digest is         *)
(* sha256_bytes(id).                                                       *)
(***************************************************************************)
EXTENDS Integers, Sequences, FiniteSets, TLC

VARIABLES
  args,         \* the parsed command line (argparse namespace)
  patterns,     \* the module globals INCLUDE_PATTERNS / EXCLUDE_PATTERNS
  pc,           \* position in main()
  exitCode,     \* process exit status: -1 while running
  raised,       \* the exception that left main() uncaught, "" if none
  runs,         \* main's local `runs`
  run_dirs,     \* main's local `run_dirs`
  outExists,    \* whether the directory `out` exists
  outFiles,     \* the files under `out`: absolute path -> content id
  outDirs,      \* the sub-directories created under `out`
  copied,       \* main's local `copied`: the list of CopiedFile records
  runIdx,       \* index of the run directory being copied
  pending,      \* files of that run directory rglob has not yielded yet
  inRun,        \* whether copy_run_dir is active for run_dirs[runIdx]
  explIdx,      \* index into EXPLICIT_FILES of the next explicit file
  envStep,      \* next step of capture_env_snapshot ("": not entered)
  envFiles,     \* tools/env artifacts: name -> whether it is non-empty
  lastWrite,    \* the branch run_bash_to_file took on its last call
  env,          \* locals of capture_env_snapshot
  manifest,     \* MANIFEST.txt: NoFile or [count, total, lines]
  notes,        \* PACKAGING_NOTES.txt: NoFile or [runs, env_snapshot]
  archive,      \* the archive beside `out`: NoFile or what was packed
  out0          \* the output path as it was before the invocation

vars == <<args, patterns, pc, exitCode, raised, runs, run_dirs, outExists,
          outFiles, outDirs, copied, runIdx, pending, inRun, explIdx,
          envStep, envFiles, lastWrite, env, manifest, notes, archive,
          out0>>

NoFile == [absent |-> TRUE]

-----------------------------------------------------------------------------
(* Bounds of the model.                                                    *)

\* the longest --runs list the command line carries
MaxRunArgs == 2

-----------------------------------------------------------------------------
(* Strings.                                                                *)

\* the characters that occur in paths, in ASCII (code point) order
Ascii == " #'*-./0123456789:?ABCDEFGHIJKLMNOPQRSTUVWXYZ_abcdefghijklmnopqrstuvwxyz~"

Ord(c) == CHOOSE i \in 1..Len(Ascii) : SubSeq(Ascii, i, i) = c

Char(s, i) == SubSeq(s, i, i)

\* Python's str < str: by code point, a proper prefix first
RECURSIVE StrLess(_, _)
StrLess(s, t) ==
  IF t = "" THEN FALSE
  ELSE IF s = "" THEN TRUE
  ELSE IF Char(s, 1) = Char(t, 1) THEN StrLess(Tail(s), Tail(t))
  ELSE Ord(Char(s, 1)) < Ord(Char(t, 1))

StartsWith(s, p) == Len(p) <= Len(s) /\ SubSeq(s, 1, Len(p)) = p

\* the white space str.strip() and str.split() look for
IsSpace(c) == c \in {" ", "\t", "\n"}

\* str.strip()
RECURSIVE LStrip(_)
LStrip(s) == IF s # "" /\ IsSpace(Char(s, 1)) THEN LStrip(Tail(s)) ELSE s

RECURSIVE RStrip(_)
RStrip(s) ==
  IF s # "" /\ IsSpace(Char(s, Len(s)))
    THEN RStrip(SubSeq(s, 1, Len(s) - 1))
    ELSE s

Strip(s) == RStrip(LStrip(s))

\* index of the last "/" of s, 0 if none
LastSlash(s) ==
  LET idx == {i \in 1..Len(s) : Char(s, i) = "/"}
  IN IF idx = {} THEN 0 ELSE CHOOSE i \in idx : \A j \in idx : j <= i

\* Path.name
PathName(p) == SubSeq(p, LastSlash(p) + 1, Len(p))

\* Path.parent
PathParent(p) == SubSeq(p, 1, LastSlash(p) - 1)

\* the / operator of pathlib, on resolved paths
Join(d, n) == d \o "/" \o n

\* Path.relative_to
RelativeTo(p, d) == SubSeq(p, Len(d) + 2, Len(p))

IsUnder(p, d) == StartsWith(p, d \o "/")

\* fnmatch.fnmatch on POSIX: * any run of characters, ? any one character
RECURSIVE fnmatch(_, _)
fnmatch(name, pat) ==
  IF pat = "" THEN name = ""
  ELSE IF Char(pat, 1) = "*"
    THEN fnmatch(name, Tail(pat)) \/ (name # "" /\ fnmatch(Tail(name), pat))
  ELSE /\ name # ""
       /\ (Char(pat, 1) = "?" \/ Char(pat, 1) = Char(name, 1))
       /\ fnmatch(Tail(name), Tail(pat))

SeqToSet(s) == {s[i] : i \in 1..Len(s)}

\* sorted(copied, key=lambda x: x.dst.as_posix()): a stable sort, so records
\* with equal keys keep the order they were collected in
RECURSIVE InsertByDst(_, _)
InsertByDst(x, s) ==
  IF s = <<>> THEN <<x>>
  ELSE IF StrLess(x.dst, s[Len(s)].dst)
    THEN InsertByDst(x, SubSeq(s, 1, Len(s) - 1)) \o <<s[Len(s)]>>
  ELSE s \o <<x>>

RECURSIVE SortedByDst(_)
SortedByDst(s) ==
  IF s = <<>> THEN <<>>
  ELSE InsertByDst(s[Len(s)], SortedByDst(SubSeq(s, 1, Len(s) - 1)))

\* sorted() of a set of distinct paths
RECURSIVE SetToSortedSeq(_)
SetToSortedSeq(S) ==
  IF S = {} THEN <<>>
  ELSE LET m == CHOOSE x \in S : \A y \in S \ {x} : StrLess(x, y)
       IN <<m>> \o SetToSortedSeq(S \ {m})

RECURSIVE SumSizes(_)
SumSizes(s) == IF s = <<>> THEN 0 ELSE Head(s).size + SumSizes(Tail(s))

-----------------------------------------------------------------------------
(* The program's configuration.                                            *)

INCLUDE_PATTERNS ==
  <<"*.yaml", "*.input.yaml", "*.updated.yaml", "*.paramnames", "*.covmat",
    "*.progress", "*.checkpoint", "*.txt", "*.A.txt", "*.B.txt">>

EXCLUDE_PATTERNS ==
  <<"*.log", "*.tmp", "*.bak", "*.npy", "*.npz", "*.pkl", "*.pickle",
    "*.hdf5", "*.h5", "*.dat", "*.fits", "*.pdf", "*.png", "*.jpg",
    "*.jpeg", "*.gif", "__pycache__/*", ".ipynb_checkpoints/*">>

EXPLICIT_FILES ==
  <<"~/.bash_aliases", "~/paper_plots/generate_fig4_fig5_from_chains.py">>

-----------------------------------------------------------------------------
(* The file system the program reads.                                      *)

Home == "/h"
Out == "/o"

\* the regular files outside `out`: absolute path -> content id
SrcFiles ==
  [p \in {"/w/a/c.yaml", "/w/a/c.1.txt", "/w/a/x.log",
          "/w/b/c.yaml", "/w/b/n.txt",
          "/w/s/a/c.yaml", "/w/s/a/r.md",
          "/e/d/c.yaml",
          "/h/runs.txt", "/h/none.txt",
          "/p/code/classy/main/class.c", "/q/x/main/class.c"} |->
     CASE p = "/w/a/c.yaml"   -> "Ya"
       [] p = "/w/a/c.1.txt"  -> "T1"
       [] p = "/w/a/x.log"    -> "Lg"
       [] p = "/w/b/c.yaml"   -> "Yb"
       [] p = "/w/b/n.txt"    -> "Tb"
       [] p = "/w/s/a/c.yaml" -> "Ys"
       [] p = "/w/s/a/r.md"   -> "Md"
       [] p = "/e/d/c.yaml"   -> "Yd"
       [] p \in {"/h/runs.txt", "/h/none.txt"} -> "Rf"
       [] OTHER               -> "Cc"]

SrcDirs ==
  {"/w", "/w/a", "/w/b", "/w/s", "/w/s/a", "/e", "/e/d", "/h",
   "/h/pk", "/h/pk/CLASS",
   "/p", "/p/code", "/p/code/classy", "/p/code/classy/main",
   "/q", "/q/x", "/q/x/main", "/z"}

\* the text files read line by line: path -> lines
TextLines ==
  [p \in {"/h/runs.txt", "/h/none.txt"} |->
     IF p = "/h/runs.txt" THEN <<"# runs", "", " b ">> ELSE <<"# none", " ">>]

\* the content ids, the explicit files' and a stale staged file's included
SizeOf ==
  [c \in {"Ya", "T1", "Lg", "Yb", "Tb", "Ys", "Md", "Yd", "Rf", "Cc", "Ba", "Py",
          "Old"} |->
     CASE c \in {"Ya", "Ys", "Yb"} -> 3
       [] c \in {"T1", "Tb"}       -> 7
       [] OTHER                    -> 2]

IsFile(p) == p \in DOMAIN SrcFiles
IsDir(p) == p \in SrcDirs
Exists(p) == IsFile(p) \/ IsDir(p)

\* os.path.expanduser
expanduser(p) == IF StartsWith(p, "~") THEN Home \o Tail(p) ELSE p

\* the digest of a file's bytes; distinct bytes have distinct digests
sha256_bytes(content) == "sha256:" \o content

\* Python's `sub in s`
Contains(s, sub) ==
  \E i \in 1..(Len(s) - Len(sub) + 1) : SubSeq(s, i, i + Len(sub) - 1) = sub

\* str.find(sub) + 1: the first index sub occurs at, 0 if it does not
Find(s, sub) ==
  LET at == {i \in 1..(Len(s) - Len(sub) + 1) : SubSeq(s, i, i + Len(sub) - 1) = sub}
  IN IF at = {} THEN 0 ELSE CHOOSE i \in at : \A j \in at : i <= j

\* s.split(sub, 1)[1], for s that contains sub
After(s, sub) == SubSeq(s, Find(s, sub) + Len(sub), Len(s))

\* s.split(sub, 1)[0]
Before(s, sub) == IF Find(s, sub) = 0 THEN s ELSE SubSeq(s, 1, Find(s, sub) - 1)

\* str.splitlines(), for text whose line ends are "\n"
RECURSIVE SplitLines(_)
SplitLines(s) ==
  IF s = "" THEN <<>>
  ELSE IF Find(s, "\n") = 0 THEN <<s>>
  ELSE <<Before(s, "\n")>> \o SplitLines(After(s, "\n"))

\* s.split()[0], for s that starts with no white space
FirstToken(s) ==
  LET ws == {i \in 1..Len(s) : IsSpace(Char(s, i))}
  IN IF ws = {} THEN s
     ELSE SubSeq(s, 1, (CHOOSE i \in ws : \A j \in ws : i <= j) - 1)

-----------------------------------------------------------------------------
(* The pure helpers of the program.                                        *)

\* matches_any(path, patterns): the bare name first, then the POSIX path
matches_any(path, pats) ==
  \/ \E i \in 1..Len(pats) : fnmatch(PathName(path), pats[i])
  \/ \E i \in 1..Len(pats) : fnmatch(path, pats[i])

\* iter_run_files(run_dir): the regular files rglob("*") finds under run_dir
iter_run_files(run_dir) == {f \in DOMAIN SrcFiles : IsUnder(f, run_dir)}

\* Path.glob(pattern) with a pattern of one component: the matching children
GlobChildren(d, pat) ==
  {f \in DOMAIN SrcFiles : PathParent(f) = d /\ fnmatch(PathName(f), pat)}

\* detect_run_dirs(base)
detect_run_dirs(base) ==
  LET has_yaml(d) == GlobChildren(d, "*.yaml") # {}
      txts(d) == GlobChildren(d, "*.txt")
      has_chain(d) ==
        \/ \E t \in txts(d) :
             \/ Contains(PathName(t), ".1.txt") \/ Contains(PathName(t), ".2.txt")
             \/ Contains(PathName(t), ".3.txt") \/ Contains(PathName(t), ".4.txt")
        \/ Cardinality(txts(d)) > 0
      candidates ==
        {d \in SrcDirs : PathParent(d) = base /\ has_yaml(d) /\ has_chain(d)}
  IN SetToSortedSeq(candidates)

\* the list comprehension of main that reads --runs-from-file
RECURSIVE RunListLines(_)
RunListLines(lines) ==
  IF lines = <<>> THEN <<>>
  ELSE LET ln == Strip(Head(lines))
       IN (IF ln # "" /\ ~StartsWith(ln, "#") THEN <<ln>> ELSE <<>>)
            \o RunListLines(Tail(lines))

\* the run directory a name resolves to: (base / r).resolve()
RunDirOf(base, r) == Join(base, r)

\* a variant of FirstUnresolved that gives up after the first name
FirstUnresolved_first_only(base, names) ==
  IF names # <<>> /\ ~IsDir(RunDirOf(base, names[1])) THEN 1 ELSE 0

\* the first name of `names` that is no existing directory under base, 0 if none
FirstUnresolved(base, names) ==
  LET bad == {i \in 1..Len(names) :
                ~Exists(RunDirOf(base, names[i])) \/ ~IsDir(RunDirOf(base, names[i]))}
  IN IF bad = {} THEN 0 ELSE CHOOSE i \in bad : \A j \in bad : i <= j

-----------------------------------------------------------------------------
(* The command lines and the initial states.                               *)

RunNames == {"a", "s/a", "zz"}

\* the --runs lists: up to MaxRunArgs names, no name twice
RunArgLists ==
  {l \in UNION {[1..n -> RunNames] : n \in 0..MaxRunArgs} :
     \A i, j \in 1..Len(l) : l[i] = l[j] => i = j}

\* argparse's namespace; runs = <<>> stands for no --runs (None or an empty
\* list: main tests its truth value), runs_from_file = "" for None
ArgSpace ==
  [base : {"/w", "/e", "/nx"},
   runs : RunArgLists,
   runs_from_file : {"", "/h/runs.txt", "/h/none.txt", "/h/nx.txt"},
   auto_detect_runs : BOOLEAN,
   force : BOOLEAN,
   zip_ : BOOLEAN,
   targz : BOOLEAN,
   env_snapshot : BOOLEAN]

\* a staging directory left by an earlier invocation
StaleFiles == [p \in {"/o/a/old.txt"} |-> "Old"]
StaleDirs == {"/o/a"}
NoFiles == [p \in {} |-> "Old"]

RealPatterns == [include |-> INCLUDE_PATTERNS, exclude |-> EXCLUDE_PATTERNS]

\* the locals of capture_env_snapshot before it runs; "" stands for None
NoEnv ==
  [grep_text |-> "", extracted |-> "", resolved |-> "", resolved_txt |-> "",
   class_dir |-> "", class_dir_txt |-> ""]

InitLocals ==
  /\ pc = "base"
  /\ exitCode = -1
  /\ raised = ""
  /\ runs = <<>>
  /\ run_dirs = <<>>
  /\ copied = <<>>
  /\ runIdx = 1
  /\ pending = {}
  /\ inRun = FALSE
  /\ explIdx = 1
  /\ envStep = ""
  /\ envFiles = [n \in {} |-> TRUE]
  /\ lastWrite = ""
  /\ env = NoEnv
  /\ manifest = NoFile
  /\ notes = NoFile
  /\ archive = NoFile

\* the states main starts in, over command lines A and pattern lists P
InitOver(A, P) ==
  /\ args \in A
  /\ patterns \in P
  /\ \/ outExists = FALSE /\ outFiles = NoFiles /\ outDirs = {}
     \/ outExists = TRUE /\ outFiles = StaleFiles /\ outDirs = StaleDirs
  /\ out0 = [exists |-> outExists, files |-> outFiles, dirs |-> outDirs]
  /\ InitLocals

Init == InitOver(ArgSpace, {RealPatterns})

-----------------------------------------------------------------------------
(* main(): validation.                                                     *)

\* `return 2` from main
Return(code) ==
  /\ exitCode' = code
  /\ pc' = "done"

\* an exception nothing in main catches: the interpreter prints the
\* traceback and exits with status 1
Uncaught(exc) ==
  /\ raised' = exc
  /\ exitCode' = 1
  /\ pc' = "done"

\* a variant of MainOrder that archives before the manifest is written
MainOrder_archive_first ==
  <<"base", "runlist", "resolve", "ensure", "copy_runs", "explicit", "env",
    "archive", "manifest", "notes", "return", "done">>

\* the statements of main in program order, lines 589-666
MainOrder ==
  <<"base", "runlist", "resolve", "ensure", "copy_runs", "explicit", "env",
    "manifest", "notes", "archive", "return", "done">>

\* the statement main reaches after statement p completes normally
NextPhase(p) ==
  LET i == CHOOSE j \in 1..Len(MainOrder) : MainOrder[j] = p
  IN MainOrder[i + 1]

\* lines 589-594: the base directory must exist
main_check_base ==
  /\ pc = "base"
  /\ IF ~Exists(args.base)
       THEN Return(2)
       ELSE pc' = NextPhase(pc) /\ UNCHANGED exitCode
  /\ UNCHANGED <<args, patterns, raised, runs, run_dirs, outExists, outFiles,
                 outDirs, copied, runIdx, pending, inRun, explIdx, envStep,
                 envFiles, lastWrite, env, manifest, notes, archive, out0>>

\* lines 596-609: the run list from --runs-from-file, then --runs over it
main_run_list ==
  /\ pc = "runlist"
  /\ IF args.runs_from_file # "" /\ ~Exists(args.runs_from_file)
       THEN Return(2) /\ UNCHANGED runs
       ELSE /\ runs' = IF args.runs # <<>> THEN args.runs
                       ELSE IF args.runs_from_file # ""
                         THEN RunListLines(TextLines[args.runs_from_file])
                       ELSE <<>>
            /\ pc' = NextPhase(pc)
            /\ UNCHANGED exitCode
  /\ UNCHANGED <<args, patterns, raised, run_dirs, outExists, outFiles,
                 outDirs, copied, runIdx, pending, inRun, explIdx, envStep,
                 envFiles, lastWrite, env, manifest, notes, archive, out0>>

\* a variant of resolve_selection in which a given run list beats the switch
resolve_selection_names_first(a, rs) ==
  IF a.auto_detect_runs /\ rs = <<>>
    THEN LET ds == detect_run_dirs(a.base)
         IN [ok |-> TRUE, run_dirs |-> ds,
             runs |-> [i \in 1..Len(ds) |-> PathName(ds[i])]]
    ELSE IF rs = <<>> \/ \E i \in 1..Len(rs) : ~IsDir(RunDirOf(a.base, rs[i]))
      THEN [ok |-> FALSE, run_dirs |-> <<>>, runs |-> rs]
      ELSE [ok |-> TRUE, runs |-> rs,
            run_dirs |-> [i \in 1..Len(rs) |-> RunDirOf(a.base, rs[i])]]

\* lines 611-624 as a function of the command line and the run list so far:
\* auto-detection when the switch is given, whatever names were given; else
\* every name resolved to an existing directory, or a refusal
resolve_selection(a, rs) ==
  IF a.auto_detect_runs
    THEN LET ds == detect_run_dirs(a.base)
         IN [ok |-> TRUE, run_dirs |-> ds,
             runs |-> [i \in 1..Len(ds) |-> PathName(ds[i])]]
    ELSE IF rs = <<>> \/ FirstUnresolved(a.base, rs) # 0
      THEN [ok |-> FALSE, run_dirs |-> <<>>, runs |-> rs]
      ELSE [ok |-> TRUE, runs |-> rs,
            run_dirs |-> [i \in 1..Len(rs) |-> RunDirOf(a.base, rs[i])]]

\* lines 611-624: the selection is resolved, or main returns 2
main_resolve ==
  /\ pc = "resolve"
  /\ LET r == resolve_selection(args, runs)
     IN IF r.ok
          THEN /\ run_dirs' = r.run_dirs
               /\ runs' = r.runs
               /\ pc' = NextPhase(pc)
               /\ UNCHANGED exitCode
          ELSE Return(2) /\ UNCHANGED <<runs, run_dirs>>
  /\ UNCHANGED <<args, patterns, raised, outExists, outFiles, outDirs, copied,
                 runIdx, pending, inRun, explIdx, envStep, envFiles, lastWrite,
                 env, manifest, notes, archive, out0>>

\* ensure_empty_dir(out, force), line 626
ensure_empty_dir ==
  /\ pc = "ensure"
  /\ IF outExists /\ ~args.force
       THEN Uncaught("FileExistsError") /\ UNCHANGED <<outExists, outFiles, outDirs>>
       ELSE /\ outExists' = TRUE
            /\ outFiles' = NoFiles
            /\ outDirs' = {}
            /\ pc' = NextPhase(pc)
            /\ UNCHANGED <<raised, exitCode>>
  /\ UNCHANGED <<args, patterns, runs, run_dirs, copied, runIdx, pending, inRun,
                 explIdx, envStep, envFiles, lastWrite, env, manifest, notes,
                 archive, out0>>

-----------------------------------------------------------------------------
(* main(): collection.                                                     *)

Put(f, k, v) == [x \in DOMAIN f \cup {k} |-> IF x = k THEN v ELSE f[x]]

\* the directories dst.parent.mkdir(parents=True) makes sure of under `out`
ParentsUnderOut(dst) ==
  {SubSeq(dst, 1, i - 1) : i \in {j \in 1..Len(dst) : Char(dst, j) = "/" /\ j > Len(Out) + 1}}

\* the CopiedFile copy_file returns: size and digest read back from dst
CopiedFile(src, dst, files) ==
  [src |-> src, dst |-> dst, size |-> SizeOf[files[dst]],
   sha256 |-> sha256_bytes(files[dst])]

\* copy_file(src, dst) when shutil.copy2 succeeds; content: the bytes of src
copy_file_ok(src, dst, content) ==
  /\ outDirs' = outDirs \cup ParentsUnderOut(dst)
  /\ outFiles' = Put(outFiles, dst, content)
  /\ copied' = Append(copied, CopiedFile(src, dst, outFiles'))

\* copy_file(src, dst) when shutil.copy2 raises (the source has vanished or
\* cannot be read): the parent directory exists, nothing else has changed,
\* and the exception leaves main uncaught
copy_file_raise(src, dst) ==
  /\ outDirs' = outDirs \cup ParentsUnderOut(dst)
  /\ UNCHANGED <<outFiles, copied>>
  /\ Uncaught("OSError")

\* where copy_run_dir puts file f of run_dir
DstOf(run_dir, f) == Join(Join(Out, PathName(run_dir)), RelativeTo(f, run_dir))

\* a variant of Selected that asks the include list only
Selected_include_only(f, pats) == matches_any(f, pats.include)

\* the filter of copy_run_dir, lines 158-160: exclude first, then include
Selected(f, pats) == ~matches_any(f, pats.exclude) /\ matches_any(f, pats.include)

\* copy_run_dir, lines 154-155: the destination directory of the run
copy_run_dir_begin ==
  /\ pc = "copy_runs"
  /\ ~inRun
  /\ runIdx <= Len(run_dirs)
  /\ inRun' = TRUE
  /\ pending' = iter_run_files(run_dirs[runIdx])
  /\ outDirs' = outDirs \cup {Join(Out, PathName(run_dirs[runIdx]))}
  /\ UNCHANGED <<args, patterns, pc, exitCode, raised, runs, run_dirs,
                 outExists, outFiles, copied, runIdx, explIdx, envStep,
                 envFiles, lastWrite, env, manifest, notes, archive, out0>>

\* copy_run_dir, lines 157-163: one file rglob yields, in any order
copy_run_dir_file ==
  /\ pc = "copy_runs"
  /\ inRun
  /\ \E f \in pending :
       /\ pending' = pending \ {f}
       /\ IF Selected(f, patterns)
            THEN \/ /\ copy_file_ok(f, DstOf(run_dirs[runIdx], f), SrcFiles[f])
                    /\ UNCHANGED <<pc, exitCode, raised>>
                 \/ copy_file_raise(f, DstOf(run_dirs[runIdx], f))
            ELSE UNCHANGED <<outDirs, outFiles, copied, pc, exitCode, raised>>
  /\ UNCHANGED <<args, patterns, runs, run_dirs, outExists, runIdx, inRun,
                 explIdx, envStep, envFiles, lastWrite, env, manifest, notes,
                 archive, out0>>

\* copy_run_dir returns; the loop of line 631 moves on
copy_run_dir_end ==
  /\ pc = "copy_runs"
  /\ inRun
  /\ pending = {}
  /\ inRun' = FALSE
  /\ runIdx' = runIdx + 1
  /\ UNCHANGED <<args, patterns, pc, exitCode, raised, runs, run_dirs,
                 outExists, outFiles, outDirs, copied, pending, explIdx,
                 envStep, envFiles, lastWrite, env, manifest, notes, archive, out0>>

\* the loop of line 631 is exhausted
main_runs_done ==
  /\ pc = "copy_runs"
  /\ ~inRun
  /\ runIdx > Len(run_dirs)
  /\ pc' = NextPhase(pc)
  /\ UNCHANGED <<args, patterns, exitCode, raised, runs, run_dirs, outExists,
                 outFiles, outDirs, copied, runIdx, pending, inRun, explIdx,
                 envStep, envFiles, lastWrite, env, manifest, notes, archive, out0>>

\* the bytes of the explicit files, when they are present
ExplicitContent(src) == IF PathName(src) = ".bash_aliases" THEN "Ba" ELSE "Py"

\* lines 641-644: where an explicit file goes
ExplicitDst(src) ==
  IF PathName(src) = ".bash_aliases"
    THEN Join(Join(Out, "tools"), ".bash_aliases")
    ELSE Join(Join(Out, "paper_plots"), PathName(src))

\* lines 635-646: one explicit file, present or not in the home directory
main_explicit_file ==
  /\ pc = "explicit"
  /\ explIdx <= Len(EXPLICIT_FILES)
  /\ explIdx' = explIdx + 1
  /\ LET src == expanduser(EXPLICIT_FILES[explIdx])
     IN \E present \in BOOLEAN :
          IF ~present
            THEN UNCHANGED <<outDirs, outFiles, copied, pc, exitCode, raised>>
            ELSE \/ /\ copy_file_ok(src, ExplicitDst(src), ExplicitContent(src))
                    /\ UNCHANGED <<pc, exitCode, raised>>
                 \/ copy_file_raise(src, ExplicitDst(src))
  /\ UNCHANGED <<args, patterns, runs, run_dirs, outExists, runIdx, pending,
                 inRun, envStep, envFiles, lastWrite, env, manifest, notes,
                 archive, out0>>

\* the loop of line 635 is exhausted
main_explicit_done ==
  /\ pc = "explicit"
  /\ explIdx > Len(EXPLICIT_FILES)
  /\ pc' = NextPhase(pc)
  /\ UNCHANGED <<args, patterns, exitCode, raised, runs, run_dirs, outExists,
                 outFiles, outDirs, copied, runIdx, pending, inRun, explIdx,
                 envStep, envFiles, lastWrite, env, manifest, notes, archive, out0>>

-----------------------------------------------------------------------------
(* main(): manifest, notes, archive.                                       *)

\* the per-file lines of write_manifest, lines 174-176
ManifestLines(records) ==
  LET sorted == SortedByDst(records)
  IN [i \in 1..Len(sorted) |->
        [sha256 |-> sorted[i].sha256, size |-> sorted[i].size,
         path |-> RelativeTo(sorted[i].dst, Out)]]

\* the text write_manifest writes, lines 168-177
ManifestText(records) ==
  [count |-> Len(records), total |-> SumSizes(records),
   lines |-> ManifestLines(records)]

\* write_manifest(out, copied), line 654
write_manifest ==
  /\ pc = "manifest"
  /\ manifest' = ManifestText(copied)
  /\ pc' = NextPhase(pc)
  /\ UNCHANGED <<args, patterns, exitCode, raised, runs, run_dirs, outExists,
                 outFiles, outDirs, copied, runIdx, pending, inRun, explIdx,
                 envStep, envFiles, lastWrite, env, notes, archive, out0>>

\* write_notes(out, base, runs, env_snapshot), line 655
write_notes ==
  /\ pc = "notes"
  /\ notes' = [base |-> args.base,
               runs |-> IF runs # <<>> THEN runs ELSE <<"(auto-detected)">>,
               env_snapshot |-> args.env_snapshot]
  /\ pc' = NextPhase(pc)
  /\ UNCHANGED <<args, patterns, exitCode, raised, runs, run_dirs, outExists,
                 outFiles, outDirs, copied, runIdx, pending, inRun, explIdx,
                 envStep, envFiles, lastWrite, env, manifest, archive, out0>>

\* what shutil.make_archive packs: the staging tree as it is now, under the
\* staging directory's own name
Packed(format) ==
  [path |-> Out \o format, root |-> PathName(Out), files |-> outFiles,
   manifest |-> manifest, notes |-> notes]

\* make_archive(out, zip_, targz), line 658: zip when both are asked for
make_archive ==
  /\ pc = "archive"
  /\ archive' = IF ~args.zip_ /\ ~args.targz THEN NoFile
                ELSE IF args.zip_ THEN Packed(".zip")
                ELSE Packed(".tar.gz")
  /\ pc' = NextPhase(pc)
  /\ UNCHANGED <<args, patterns, exitCode, raised, runs, run_dirs, outExists,
                 outFiles, outDirs, copied, runIdx, pending, inRun, explIdx,
                 envStep, envFiles, lastWrite, env, manifest, notes, out0>>

\* line 666
main_return ==
  /\ pc = "return"
  /\ Return(0)
  /\ UNCHANGED <<args, patterns, raised, runs, run_dirs, outExists, outFiles,
                 outDirs, copied, runIdx, pending, inRun, explIdx, envStep,
                 envFiles, lastWrite, env, manifest, notes, archive, out0>>

\* line 649, --env-snapshot not given
main_env_skip ==
  /\ pc = "env"
  /\ ~args.env_snapshot
  /\ pc' = NextPhase(pc)
  /\ UNCHANGED <<args, patterns, exitCode, raised, runs, run_dirs, outExists,
                 outFiles, outDirs, copied, runIdx, pending, inRun, explIdx,
                 envStep, envFiles, lastWrite, env, manifest, notes, archive, out0>>

-----------------------------------------------------------------------------
(* capture_env_snapshot.                                                   *)

\* the artifacts run_bash_to_file writes on every path, in program order
\* (lines 390-428 and 465-477)
BashArtifacts ==
  <<"python_version.txt", "python_path.txt", "python_executable.txt",
    "uname.txt", "platform.txt", "pip_version.txt", "pip-freeze.txt",
    "pip-show-cobaya.txt", "cobaya_version.txt", "cobaya_cli.txt",
    "classy_present.txt", "cobaya_config_candidates.txt",
    "cobaya_packages_path_env.txt", "packages_path_grep.txt">>

\* the artifacts written on every path through capture_env_snapshot
CommonArtifacts ==
  SeqToSet(BashArtifacts) \cup
    {"cobaya_config_path.txt", "cobaya_config_contents.txt",
     "packages_path_resolved.txt", "packages_path_ls.txt",
     "class_dir_found.txt", "class_git_hash.txt",
     "class_fingerprint_sha256.txt"}

\* the artifacts of lines 520-534, written when a CLASS directory is found
ClassDirArtifacts == {"class_git_status.txt", "class_dir_ls.txt"}

\* the artifact sets capture_env_snapshot can leave, each file non-empty
EnvResults ==
  {[n \in CommonArtifacts |-> TRUE],
   [n \in CommonArtifacts \cup ClassDirArtifacts |-> TRUE]}

\* capture_env_snapshot(out, venv_activate), lines 649-650, taken as a whole
capture_env_snapshot ==
  /\ pc = "env"
  /\ args.env_snapshot
  /\ envStep = ""
  /\ envStep' = "done"
  /\ envFiles' \in EnvResults
  /\ outDirs' = outDirs \cup {Join(Out, "tools"), Join(Join(Out, "tools"), "env")}
  /\ pc' = NextPhase(pc)
  /\ UNCHANGED <<args, patterns, exitCode, raised, runs, run_dirs, outExists,
                 outFiles, copied, runIdx, pending, inRun, explIdx, lastWrite,
                 env, manifest, notes, archive, out0>>

-----------------------------------------------------------------------------
(* capture_env_snapshot, step by step.                                     *)

EnvDir == Join(Join(Out, "tools"), "env")

\* what exists while main runs: the file system read, and the staging tree
ExistsNow(p) ==
  \/ Exists(p)
  \/ outExists /\ (p = Out \/ p \in outDirs \/ p \in DOMAIN outFiles)
  \/ \E n \in DOMAIN envFiles : p = Join(EnvDir, n)

IsDirNow(p) == IsDir(p) \/ (outExists /\ (p = Out \/ p \in outDirs))

\* the command line each call of run_bash_to_file passes, by artifact
EnvCmd(file, e) ==
  CASE file = "python_version.txt" -> "python -V"
    [] file = "python_path.txt" -> "which python"
    [] file = "python_executable.txt" ->
         "python -c \"import sys; print(sys.executable)\""
    [] file = "uname.txt" -> "uname -a"
    [] file = "platform.txt" ->
         "python -c \"import platform; print(platform.platform())\""
    [] file = "pip_version.txt" -> "python -m pip -V"
    [] file = "pip-freeze.txt" -> "python -m pip freeze"
    [] file = "pip-show-cobaya.txt" ->
         "python -m pip show cobaya 2>/dev/null || true"
    [] file = "cobaya_version.txt" ->
         "python -c \"import cobaya; print('cobaya', cobaya.__version__); print('cobaya_file', cobaya.__file__)\""
    [] file = "cobaya_cli.txt" ->
         "python -c \"import shutil; print('cobaya_cli', shutil.which('cobaya'))\""
    [] file = "classy_present.txt" ->
         "python -c \"import importlib.util as u; print('classy_found', u.find_spec('classy') is not None)\""
    [] file = "cobaya_config_candidates.txt" ->
         "python -c \"from pathlib import Path; \\\nc=[Path('~/.cobaya/config.yaml').expanduser(), Path('~/.config/cobaya/config.yaml').expanduser()]; \\\nprint('config_candidates:'); \\\n[print(str(p), 'exists='+str(p.exists())) for p in c]\" "
    [] file = "cobaya_packages_path_env.txt" ->
         "echo \"COBAYA_PACKAGES_PATH=${COBAYA_PACKAGES_PATH:-'(not set)'}\""
    [] file = "packages_path_grep.txt" ->
         "cd '" \o Out \o "' && grep -R \"packages_path\" -n . 2>/dev/null || true"
    [] file = "packages_path_ls.txt" -> "ls -la '" \o e.resolved \o "'"
    [] file = "class_git_hash.txt" ->
         "git -C '" \o e.class_dir \o "' rev-parse HEAD 2>/dev/null || echo '(not a git repo)'"
    [] file = "class_git_status.txt" ->
         "git -C '" \o e.class_dir \o "' status --porcelain 2>/dev/null || true"
    [] file = "class_dir_ls.txt" -> "ls -la '" \o e.class_dir \o "'"

\* what `grep -R packages_path -n .` can print over the staged files
GrepOutputs ==
  {"",
   "./a/c.yaml:3:packages_path: '/p'\n",
   "./a/c.yaml:3:packages_path: pk\n",
   "./a/c.yaml:3:packages_path: sp\n",
   "./b/c.yaml:7:packages_path : /z\n./a/c.yaml:3:packages_path: /q\n",
   "./a/c.yaml:3:packages_path: \"/q\" # local\n",
   "./a/c.yaml:3:packages_path: /nx\n",
   "./a/n.txt:1:see packages_path below\n./a/c.yaml:3:packages_path: ''\n./b/c.yaml:2:packages_path:   \"/p\"  \n",
   "./a/c.yaml:3:packages_path: 'x y' z\n",
   "./a/c.yaml:3:packages_path: 'unterminated\n",
   "./a/c.yaml:3:packages_path:\n./b/c.yaml:2:packages_path   :\t/z\tq\n"}

\* what subprocess.run can do with a command: raise (bash is absent), or
\* return the combined output with some exit status (check=False)
CommandOutcomes(file) ==
  {[raises |-> TRUE, stdout |-> "", returncode |-> 0]} \cup
  [raises : {FALSE},
   stdout : IF file = "packages_path_grep.txt" THEN GrepOutputs ELSE {"", "out\n"},
   returncode : {0, 1}]

\* a variant of run_bash_to_file without the except clause
run_bash_to_file_no_except(cmd, o) ==
  [text |-> IF o.stdout # "" THEN o.stdout ELSE "(no output)\n",
   branch |-> IF o.stdout # "" THEN "stdout" ELSE "placeholder",
   propagates |-> o.raises]

\* run_bash_to_file(cmd, out_path, venv_activate), lines 251-263: the text
\* it writes, the branch that wrote it, and whether an exception leaves it
run_bash_to_file(cmd, o) ==
  IF o.raises
    THEN [text |-> "ERROR running command:\n" \o cmd
                     \o "\n\n[Errno 2] No such file or directory: 'bash'\n",
          branch |-> "error", propagates |-> FALSE]
    ELSE [text |-> IF o.stdout # "" THEN o.stdout ELSE "(no output)\n",
          branch |-> IF o.stdout # "" THEN "stdout" ELSE "placeholder",
          propagates |-> FALSE]

\* _extract_packages_path_from_grep over the lines of the text, lines 278-294
RECURSIVE ExtractFromLines(_)
ExtractFromLines(lines) ==
  IF lines = <<>> THEN ""
  ELSE LET line == Head(lines)
           parts == After(line, "packages_path")
           stripped == Strip(After(parts, ":"))
           quoted(q) == StartsWith(stripped, q) /\ Contains(Tail(stripped), q)
           tail == IF quoted("'") \/ quoted("\"")
                     THEN Before(Tail(stripped), Char(stripped, 1))
                   ELSE IF stripped # "" THEN FirstToken(stripped)
                   ELSE ""
       IN IF Contains(line, "packages_path") /\ Contains(parts, ":") /\ tail # ""
            THEN tail
            ELSE ExtractFromLines(Tail(lines))

\* a variant of extract_packages_path_from_grep that gives up after one line
extract_packages_path_from_grep_first_line(grep_text) ==
  LET ls == SplitLines(grep_text)
  IN ExtractFromLines(IF ls = <<>> THEN <<>> ELSE <<Head(ls)>>)

\* _extract_packages_path_from_grep(grep_text); "" stands for None
extract_packages_path_from_grep(grep_text) == ExtractFromLines(SplitLines(grep_text))

\* the candidates of _find_class_dir, lines 305-313
ClassCandidates(pp) ==
  <<Join(Join(pp, "code"), "class_public"), Join(Join(pp, "code"), "CLASS"),
    Join(Join(pp, "code"), "class"), Join(Join(pp, "code"), "classy"),
    Join(pp, "class_public"), Join(pp, "CLASS"), Join(pp, "classy")>>

\* _find_class_dir(packages_path), lines 302-330: the directories it can
\* return, "" for None; rglob yields the `main` directories in any order
find_class_dir(pp) ==
  LET cands == ClassCandidates(pp)
      hits == {i \in 1..Len(cands) : ExistsNow(cands[i]) /\ IsDirNow(cands[i])}
      mains == {d \in SrcDirs : IsUnder(d, pp) /\ PathName(d) = "main"
                                 /\ IsFile(Join(d, "class.c"))}
  IN IF ~ExistsNow(pp) THEN {""}
     ELSE IF hits # {} THEN {cands[CHOOSE i \in hits : \A j \in hits : i <= j]}
     ELSE IF mains # {} THEN {PathParent(d) : d \in mains}
     ELSE {""}

\* lines 484-494: the path the extracted value is taken to name
resolve_packages_path(extracted) ==
  IF extracted = "" THEN ""
  ELSE LET p == expanduser(extracted)
       IN IF ~StartsWith(p, "/")
            THEN IF ExistsNow(Join(Home, p)) THEN Join(Home, p) ELSE Join(Out, p)
            ELSE p

\* the calls of run_bash_to_file in program order, before the probe
EnvOrder ==
  SubSeq(BashArtifacts, 1, 12) \o <<"config">> \o SubSeq(BashArtifacts, 13, 14)
    \o <<"resolve">>

\* the step after a step of EnvOrder
EnvNext(step) ==
  LET i == CHOOSE j \in 1..Len(EnvOrder) : EnvOrder[j] = step
  IN EnvOrder[i + 1]

\* the step after a call of run_bash_to_file
AfterBash(file) ==
  CASE file = "packages_path_ls.txt" -> "find_class"
    [] file = "class_git_hash.txt" -> "class_git_status.txt"
    [] file = "class_git_status.txt" -> "class_dir_ls.txt"
    [] file = "class_dir_ls.txt" -> "fingerprint"
    [] OTHER -> EnvNext(file)

BashSteps ==
  SeqToSet(BashArtifacts) \cup
    {"packages_path_ls.txt", "class_git_hash.txt", "class_git_status.txt",
     "class_dir_ls.txt"}

\* files written with text that is never empty
WriteAll(names) == [n \in DOMAIN envFiles \cup names |-> IF n \in names THEN TRUE ELSE envFiles[n]]

\* capture_env_snapshot returns to main, line 650
EnvReturn ==
  /\ envStep' = "done"
  /\ pc' = NextPhase(pc)

\* lines 386-387: capture_env_snapshot is entered and makes tools/env
capture_env_begin ==
  /\ pc = "env"
  /\ args.env_snapshot
  /\ envStep = ""
  /\ envStep' = EnvOrder[1]
  /\ outDirs' = outDirs \cup {Join(Out, "tools"), EnvDir}
  /\ UNCHANGED <<args, patterns, pc, exitCode, raised, runs, run_dirs,
                 outExists, outFiles, copied, runIdx, pending, inRun, explIdx,
                 envFiles, lastWrite, env, manifest, notes, archive, out0>>

\* one call of run_bash_to_file, whatever the command does
capture_env_run_bash ==
  /\ pc = "env"
  /\ envStep \in BashSteps
  /\ \E o \in CommandOutcomes(envStep) :
       LET r == run_bash_to_file(EnvCmd(envStep, env), o)
       IN IF r.propagates
            THEN Uncaught("OSError") /\ UNCHANGED <<envStep, envFiles, lastWrite, env>>
            ELSE /\ envFiles' = Put(envFiles, envStep, r.text # "")
                 /\ lastWrite' = r.branch
                 /\ env' = IF envStep = "packages_path_grep.txt"
                             THEN [env EXCEPT !.grep_text = r.text]
                             ELSE env
                 /\ envStep' = AfterBash(envStep)
                 /\ UNCHANGED <<pc, exitCode, raised>>
  /\ UNCHANGED <<args, patterns, runs, run_dirs, outExists, outFiles, outDirs,
                 copied, runIdx, pending, inRun, explIdx, manifest, notes,
                 archive, out0>>

\* lines 431-461: the Cobaya config path and contents, whether or not a
\* config file exists and can be read
capture_env_config ==
  /\ pc = "env"
  /\ envStep = "config"
  /\ envFiles' = WriteAll({"cobaya_config_path.txt", "cobaya_config_contents.txt"})
  /\ envStep' = EnvNext(envStep)
  /\ UNCHANGED <<args, patterns, pc, exitCode, raised, runs, run_dirs,
                 outExists, outFiles, outDirs, copied, runIdx, pending, inRun,
                 explIdx, lastWrite, env, manifest, notes, archive, out0>>

\* lines 480-500: the grep artifact is read back and parsed, the path is
\* resolved and packages_path_resolved.txt is written
capture_env_resolve ==
  /\ pc = "env"
  /\ envStep = "resolve"
  /\ LET extracted == extract_packages_path_from_grep(env.grep_text)
         resolved == resolve_packages_path(extracted)
     IN /\ env' = [env EXCEPT
                     !.extracted = extracted,
                     !.resolved = resolved,
                     !.resolved_txt =
                        (IF resolved # "" THEN resolved ELSE "(not found in YAMLs)")
                          \o "\n"]
        /\ envFiles' = Put(envFiles, "packages_path_resolved.txt", env'.resolved_txt # "")
        /\ envStep' = IF resolved # "" /\ ExistsNow(resolved)
                        THEN "packages_path_ls.txt"
                        ELSE "skip_packages"
  /\ UNCHANGED <<args, patterns, pc, exitCode, raised, runs, run_dirs,
                 outExists, outFiles, outDirs, copied, runIdx, pending, inRun,
                 explIdx, lastWrite, manifest, notes, archive, out0>>

\* lines 511-516: the CLASS directory is looked for and reported
capture_env_find_class ==
  /\ pc = "env"
  /\ envStep = "find_class"
  /\ \E class_dir \in find_class_dir(env.resolved) :
       LET found == class_dir # "" /\ ExistsNow(class_dir)
       IN /\ env' = [env EXCEPT
                       !.class_dir = class_dir,
                       !.class_dir_txt =
                          (IF found THEN class_dir
                           ELSE "(CLASS dir not found under packages_path)") \o "\n"]
          /\ envFiles' = Put(envFiles, "class_dir_found.txt", env'.class_dir_txt # "")
          /\ envStep' = IF found THEN "class_git_hash.txt" ELSE "skip_class"
  /\ UNCHANGED <<args, patterns, pc, exitCode, raised, runs, run_dirs,
                 outExists, outFiles, outDirs, copied, runIdx, pending, inRun,
                 explIdx, lastWrite, manifest, notes, archive, out0>>

\* line 537: _write_class_fingerprint, whose text starts with two header lines
capture_env_fingerprint ==
  /\ pc = "env"
  /\ envStep = "fingerprint"
  /\ envFiles' = WriteAll({"class_fingerprint_sha256.txt"})
  /\ EnvReturn
  /\ UNCHANGED <<args, patterns, exitCode, raised, runs, run_dirs, outExists,
                 outFiles, outDirs, copied, runIdx, pending, inRun, explIdx,
                 lastWrite, env, manifest, notes, archive, out0>>

\* lines 538-546: no CLASS directory under the packages path
capture_env_skip_class ==
  /\ pc = "env"
  /\ envStep = "skip_class"
  /\ envFiles' = WriteAll({"class_git_hash.txt", "class_fingerprint_sha256.txt"})
  /\ EnvReturn
  /\ UNCHANGED <<args, patterns, exitCode, raised, runs, run_dirs, outExists,
                 outFiles, outDirs, copied, runIdx, pending, inRun, explIdx,
                 lastWrite, env, manifest, notes, archive, out0>>

\* lines 548-566: no packages path, or one that does not exist
capture_env_skip_packages ==
  /\ pc = "env"
  /\ envStep = "skip_packages"
  /\ envFiles' = WriteAll({"packages_path_ls.txt", "class_dir_found.txt",
                           "class_git_hash.txt", "class_fingerprint_sha256.txt"})
  /\ EnvReturn
  /\ UNCHANGED <<args, patterns, exitCode, raised, runs, run_dirs, outExists,
                 outFiles, outDirs, copied, runIdx, pending, inRun, explIdx,
                 lastWrite, env, manifest, notes, archive, out0>>

-----------------------------------------------------------------------------
(* The specifications.                                                     *)

\* main but for its environment-snapshot statement, lines 649-650
NextCore ==
  \/ main_check_base
  \/ main_run_list
  \/ main_resolve
  \/ ensure_empty_dir
  \/ copy_run_dir_begin
  \/ copy_run_dir_file
  \/ copy_run_dir_end
  \/ main_runs_done
  \/ main_explicit_file
  \/ main_explicit_done
  \/ write_manifest
  \/ write_notes
  \/ make_archive
  \/ main_return

\* main over every command line, capture_env_snapshot taken in one step
Next ==
  \/ NextCore
  \/ main_env_skip
  \/ capture_env_snapshot

Spec == Init /\ [][Next]_vars

\* the command line of the environment-snapshot specification
EnvArgs ==
  [base |-> "/w", runs |-> <<"a">>, runs_from_file |-> "",
   auto_detect_runs |-> FALSE, force |-> TRUE, zip_ |-> FALSE, targz |-> TRUE,
   env_snapshot |-> TRUE]

InitEnv == InitOver({EnvArgs}, {RealPatterns})

\* main with capture_env_snapshot taken call by call
NextEnv ==
  \/ NextCore
  \/ capture_env_begin
  \/ capture_env_run_bash
  \/ capture_env_config
  \/ capture_env_resolve
  \/ capture_env_find_class
  \/ capture_env_fingerprint
  \/ capture_env_skip_class
  \/ capture_env_skip_packages

SpecEnv == InitEnv /\ [][NextEnv]_vars

\* pattern lists a caller can install in place of the module's own
PatternPolicies ==
  {RealPatterns,
   [include |-> <<"*.txt", "*.yaml">>, exclude |-> <<"c.1.*", "*/s/*">>],
   [include |-> <<"*">>, exclude |-> <<"*.yaml">>],
   [include |-> <<>>, exclude |-> <<>>]}

\* the command lines of the collection specification
CollectArgs ==
  [base : {"/w"}, runs : RunArgLists, runs_from_file : {""},
   auto_detect_runs : BOOLEAN, force : {TRUE}, zip_ : {FALSE},
   targz : {FALSE}, env_snapshot : {FALSE}]

InitCollect == InitOver(CollectArgs, PatternPolicies)

NextCollect ==
  \/ NextCore
  \/ main_env_skip

\* main over every pattern policy
SpecCollect == InitCollect /\ [][NextCollect]_vars

\* the one-step capture_env_snapshot of Spec leaves what the call-by-call
\* one of SpecEnv leaves
EnvResultsCover == envStep = "done" => envFiles \in EnvResults

-----------------------------------------------------------------------------
(* Properties of main.                                                     *)

EndsWith(s, suf) ==
  Len(suf) <= Len(s) /\ SubSeq(s, Len(s) - Len(suf) + 1, Len(s)) = suf

\* the output path is as it was before the invocation
OutUnchanged ==
  /\ outExists = out0.exists
  /\ outFiles = out0.files
  /\ outDirs = out0.dirs

\* nothing has been copied or written
NothingStaged ==
  /\ copied = <<>>
  /\ DOMAIN envFiles = {}
  /\ manifest = NoFile
  /\ notes = NoFile
  /\ archive = NoFile

\* the names the manual selection modes give: --runs over --runs-from-file
GivenNames ==
  IF args.runs # <<>> THEN args.runs
  ELSE IF args.runs_from_file \in DOMAIN TextLines
    THEN RunListLines(TextLines[args.runs_from_file])
  ELSE <<>>

\* the validation failures of main, read off the command line and the file
\* system: base missing, run-list file missing, no selection, a name that is
\* no directory under base
ValidationFailure ==
  \/ args.base \notin SrcDirs
  \/ args.runs_from_file # "" /\ args.runs_from_file \notin DOMAIN SrcFiles
  \/ /\ ~args.auto_detect_runs
     /\ \/ GivenNames = <<>>
        \/ \E i \in 1..Len(GivenNames) : Join(args.base, GivenNames[i]) \notin SrcDirs

C2_ExistingOutputIsUsageError ==
  (pc = "done" /\ out0.exists /\ ~args.force) => (exitCode = 2 /\ OutUnchanged)

\* C3: the run selection used for staging is non-empty, or the invocation
\* fails before any filesystem mutation.
C3_SelectionNonEmptyOrNoMutation ==
  (pc \notin {"base", "runlist", "resolve"} /\ run_dirs = <<>>) =>
    /\ OutUnchanged /\ NothingStaged
    /\ pc = "done" => exitCode # 0

\* every file the filter selects in every selected run directory is staged
AllSelectedCopied ==
  \A i \in 1..Len(run_dirs) : \A f \in iter_run_files(run_dirs[i]) :
    Selected(f, patterns) => DstOf(run_dirs[i], f) \in DOMAIN outFiles

\* C5: in every terminal state the output path is as it was before the
\* invocation or holds a complete staging tree (every selected file copied
\* and MANIFEST.txt written), and nothing of an overwritten output
\* directory remains.
C5_NoPartialStaging ==
  pc = "done" =>
    /\ OutUnchanged \/ (AllSelectedCopied /\ manifest # NoFile)
    /\ ~OutUnchanged => DOMAIN outFiles \cap DOMAIN out0.files = {}

\* C6: when MANIFEST.txt is written, every line's digest and size are those
\* of the file now at the line's path in the staging tree.
C6_ManifestMatchesStagedBytes ==
  manifest # NoFile =>
    \A i \in 1..Len(manifest.lines) :
      LET p == Join(Out, manifest.lines[i].path)
      IN /\ p \in DOMAIN outFiles
         /\ manifest.lines[i].sha256 = sha256_bytes(outFiles[p])
         /\ manifest.lines[i].size = SizeOf[outFiles[p]]

\* records i and i+1 of s exchanged
SwapAdjacent(s, i) ==
  [j \in 1..Len(s) |-> IF j = i THEN s[i + 1] ELSE IF j = i + 1 THEN s[i] ELSE s[j]]

\* C7: the manifest reports the number of records and the sum of their
\* sizes, its lines ascend by destination path, and it is the same for
\* every order the records could have been collected in.
C7_ManifestIndependentOfOrder ==
  manifest # NoFile =>
    /\ manifest.count = Len(copied)
    /\ manifest.total = SumSizes(copied)
    /\ \A i, j \in 1..Len(manifest.lines) :
         i < j => ~StrLess(manifest.lines[j].path, manifest.lines[i].path)
    /\ \A i \in 1..(Len(copied) - 1) :
         ManifestText(SwapAdjacent(copied, i)) = manifest

\* C8: the phases of a successful invocation come in the fixed order: no
\* file is copied before the output directory is (re)created, explicit
\* files follow the run directories, the environment capture follows them,
\* the manifest and the notes follow that, and the archive holds both.
C8_PhaseOrder ==
  /\ copied # <<>> =>
       (outExists /\ DOMAIN outFiles \cap DOMAIN StaleFiles = {})
  /\ (\E i \in 1..Len(copied) : IsUnder(copied[i].src, Home)) =>
       (runIdx > Len(run_dirs) /\ ~inRun)
  /\ DOMAIN envFiles # {} => explIdx > Len(EXPLICIT_FILES)
  /\ manifest # NoFile =>
       /\ explIdx > Len(EXPLICIT_FILES)
       /\ args.env_snapshot => envStep = "done"
  /\ notes # NoFile => manifest # NoFile
  /\ archive # NoFile =>
       /\ manifest # NoFile /\ archive.manifest = manifest
       /\ notes # NoFile /\ archive.notes = notes
       /\ archive.files = outFiles
  /\ exitCode = 0 =>
       /\ outExists /\ runIdx > Len(run_dirs) /\ explIdx > Len(EXPLICIT_FILES)
       /\ args.env_snapshot => envStep = "done"
       /\ manifest # NoFile /\ notes # NoFile
       /\ (args.zip_ \/ args.targz) => archive # NoFile

\* C8 witness: a successful invocation over an existing output directory
\* that copied run files and explicit files, captured the environment and
\* made an archive
C8_Witness ==
  /\ exitCode = 0
  /\ out0.exists
  /\ args.env_snapshot
  /\ archive # NoFile
  /\ \E i \in 1..Len(copied) : IsUnder(copied[i].src, Home)
  /\ \E i \in 1..Len(copied) : IsUnder(copied[i].src, args.base)

\* the run directories staged at the top of the staging tree
StagedRunDirs ==
  {d \in outDirs : PathParent(d) = Out} \ {Join(Out, "tools"), Join(Out, "paper_plots")}

QualifyingDirs(base) ==
  {d \in SrcDirs :
     /\ PathParent(d) = base
     /\ \E f \in DOMAIN SrcFiles : PathParent(f) = d /\ EndsWith(f, ".yaml")
     /\ \E f \in DOMAIN SrcFiles : PathParent(f) = d /\ EndsWith(f, ".txt")}

-----------------------------------------------------------------------------
(* Properties of copy_run_dir and capture_env_snapshot.                    *)

\* the records copy_run_dir appended: those whose source is under base
RunRecords == {i \in 1..Len(copied) : IsUnder(copied[i].src, args.base)}

\* C4: a file that matches an exclude pattern is never copied by
\* copy_run_dir and gets no CopiedFile record, whether or not it matches an
\* include pattern, and a file that matches no include pattern is not copied
\* either; every file staged under a run directory has such a record.
C4_ExcludeBeatsInclude ==
  /\ \A i \in RunRecords :
       /\ ~matches_any(copied[i].src, patterns.exclude)
       /\ matches_any(copied[i].src, patterns.include)
  /\ \A p \in DOMAIN outFiles :
       (p \notin DOMAIN StaleFiles) => \E i \in 1..Len(copied) : copied[i].dst = p

\* C4 witness: a run is staged under a policy whose exclude list matches a
\* file the include list matches too, and that file is not in the tree
C4_Witness ==
  /\ exitCode = 0
  /\ run_dirs = <<"/w/a">>
  /\ matches_any("/w/a/c.1.txt", patterns.include)
  /\ matches_any("/w/a/c.1.txt", patterns.exclude)
  /\ "/o/a/c.1.txt" \notin DOMAIN outFiles
  /\ "/o/a/c.yaml" \in DOMAIN outFiles

\* the position of a step in EnvOrder; the probe's steps come after them all
EnvRank(step) ==
  IF step = "" THEN 0
  ELSE IF \E j \in 1..Len(EnvOrder) : EnvOrder[j] = step
    THEN CHOOSE j \in 1..Len(EnvOrder) : EnvOrder[j] = step
  ELSE Len(EnvOrder) + 1

\* C10: whatever each command does (output, no output, non-zero exit, the
\* invocation raising), every artifact written is non-empty, every call
\* that has been passed has written its artifact, no exception leaves
\* capture_env_snapshot, and when it returns the packages-path, CLASS
\* directory, git-hash and fingerprint artifacts are written in every branch.
C10_EnvCaptureNonFatal ==
  /\ \A n \in DOMAIN envFiles : envFiles[n]
  /\ \A j \in 1..Len(EnvOrder) :
       (EnvRank(envStep) > j /\ EnvOrder[j] \in BashSteps) =>
         EnvOrder[j] \in DOMAIN envFiles
  /\ envStep = "done" => CommonArtifacts \subseteq DOMAIN envFiles
  /\ envStep \in {"class_git_status.txt", "class_dir_ls.txt", "fingerprint"} =>
       "class_git_hash.txt" \in DOMAIN envFiles
  /\ raised # "" => envStep = ""
  /\ pc = "done" => (envStep \in {"", "done"} /\ (envStep = "done" => exitCode = 0))

\* C10 witness: the grep invocation raised, its artifact holds the error
\* text, the later steps ran and the invocation ended with exit code 0
C10_Witness ==
  /\ exitCode = 0
  /\ envStep = "done"
  /\ lastWrite = "error"
  /\ StartsWith(env.grep_text, "ERROR running command:")
  /\ CommonArtifacts \subseteq DOMAIN envFiles

-----------------------------------------------------------------------------
(* Properties of the packages-path probe.                                  *)

\* packages_path_resolved.txt has been written
ResolvedWritten == "packages_path_resolved.txt" \in DOMAIN envFiles

\* C11: packages_path_resolved.txt holds an absolute path that exists or the
\* not-found marker: an extracted path that is relative and exists neither
\* under the home directory nor under the staging root, or is absolute and
\* does not exist, is recorded as the marker.
C11_ResolvedExistsOrMarker ==
  ResolvedWritten =>
    \/ env.resolved_txt = "(not found in YAMLs)\n"
    \/ /\ StartsWith(env.resolved_txt, "/")
       /\ ExistsNow(Before(env.resolved_txt, "\n"))

\* _find_class_dir has returned and class_dir_found.txt has been written
ClassDirSearched == "class_dir_found.txt" \in DOMAIN envFiles /\ env.class_dir_txt # ""

\* a directory that holds main/class.c or include/class.h
HasClassMarker(d) ==
  \/ ExistsNow(Join(Join(d, "main"), "class.c"))
  \/ ExistsNow(Join(Join(d, "include"), "class.h"))

\* the fixed candidates under pp that are directories with a marker file
QualifyingCandidates(pp) ==
  {c \in SeqToSet(ClassCandidates(pp)) : IsDirNow(c) /\ HasClassMarker(c)}

\* C12: _find_class_dir returns a fixed candidate only if that candidate
\* holds main/class.c or include/class.h; when no fixed candidate qualifies
\* it returns the parent of a directory `main` that holds class.c, and None
\* when there is no such directory either.
C12_FindClassDirNeedsMarker ==
  ClassDirSearched =>
    IF QualifyingCandidates(env.resolved) # {}
      THEN env.class_dir \in QualifyingCandidates(env.resolved)
      ELSE IF \E d \in SrcDirs : /\ IsUnder(d, env.resolved)
                                 /\ PathName(d) = "main"
                                 /\ IsFile(Join(d, "class.c"))
        THEN /\ env.class_dir # ""
             /\ IsUnder(env.class_dir, env.resolved) \/ env.class_dir = env.resolved
             /\ IsFile(Join(Join(env.class_dir, "main"), "class.c"))
        ELSE env.class_dir = ""

MinOf(S) == CHOOSE x \in S : \A y \in S : x <= y
MaxOf(S) == CHOOSE x \in S : \A y \in S : y <= x

\* the value a line gives, by position: after the first occurrence of the
\* key and the first ':' behind it, the text between the quotes when the
\* value opens with a quote that is closed, else its first token; "" if none
LineValue(line) ==
  LET keyAt == {k \in 1..(Len(line) - 12) : SubSeq(line, k, k + 12) = "packages_path"}
  IN IF keyAt = {} THEN ""
     ELSE LET colons == {c \in (MinOf(keyAt) + 13)..Len(line) : Char(line, c) = ":"}
          IN IF colons = {} THEN ""
             ELSE LET ink == {i \in (MinOf(colons) + 1)..Len(line) : ~IsSpace(Char(line, i))}
                  IN IF ink = {} THEN ""
                     ELSE LET a == MinOf(ink)
                              z == MaxOf(ink)
                              closes == {i \in (a + 1)..z : Char(line, i) = Char(line, a)}
                              gaps == {i \in a..z : IsSpace(Char(line, i))}
                          IN IF Char(line, a) \in {"'", "\""} /\ closes # {}
                               THEN SubSeq(line, a + 1, MinOf(closes) - 1)
                             ELSE IF gaps = {} THEN SubSeq(line, a, z)
                             ELSE SubSeq(line, a, MinOf(gaps) - 1)

\* C13: _extract_packages_path_from_grep returns the value of the first line
\* of the scanned text that holds the key packages_path, a ':' behind it and
\* a non-empty value (the text inside the quotes of a quoted value, else the
\* first whitespace-delimited token), whatever later lines hold, and None
\* when no line gives a non-empty value.
C13_FirstValueWins ==
  ResolvedWritten =>
    LET lines == SplitLines(env.grep_text)
        hits == {i \in 1..Len(lines) : LineValue(lines[i]) # ""}
    IN IF hits = {} THEN env.extracted = ""
       ELSE env.extracted = LineValue(lines[MinOf(hits)])

\* C13 witness: the first line holds the key without a ':', the second an
\* empty quoted value, the third a double-quoted value, which is returned
C13_Witness ==
  /\ ResolvedWritten
  /\ Len(SplitLines(env.grep_text)) = 3
  /\ LineValue(SplitLines(env.grep_text)[1]) = ""
  /\ LineValue(SplitLines(env.grep_text)[2]) = ""
  /\ env.extracted = "/p"

====
